---- MODULE Spec2Model ----
(***************************************************************************)
(* MQTT shell: the master (WebSocket server bridging xterm.js clients to   *)
(* an MQTT broker) and the target (MQTT client spawning pty shells).       *)
(* Every action below is one event handler of lib/master.js or             *)
(* lib/target.js, run to completion (node's single-threaded event loop).   *)
(***************************************************************************)
EXTENDS Integers, Sequences, FiniteSets, TLC

\* ------------------------------------------------------------------ bounds
\* data packets published in total, over all sessions and both directions
MaxPkts == 3
\* length a reorder buffer may reach before the broker stops redelivering
MaxBuf == 2
\* pty processes the target spawns in total
MaxSpawn == 3
\* heartbeat ticks counted per connection since the last pong
MaxTicks == 2

\* ------------------------------------------------------- identifiers, text
\* the connections the WebSocket server accepts; connection c draws the
\* session id uuid_v4(c)
Ids == {"A", "B"}
NoId == "none"

Hex == {"0", "1", "2", "3", "4", "5", "6", "7", "8", "9", "a", "b", "c", "d", "e", "f"}

Rep(ch, n) == [i \in 1..n |-> ch]

\* a 36 character string 8-4-4-4-12 made of the character ch
UuidOf(ch) ==
  Rep(ch, 8) \o <<"-">> \o Rep(ch, 4) \o <<"-">> \o Rep(ch, 4) \o <<"-">>
    \o Rep(ch, 4) \o <<"-">> \o Rep(ch, 12)

\* offsets of the dashes in '[0-9a-f]{8}(-[0-9a-f]{4}){3}-[0-9a-f]{12}'
DashAt == {8, 13, 18, 23}
PatternLen == 36

\* the pattern matches the substring of s that starts at position i
MatchAt(s, i) ==
  /\ i + PatternLen - 1 <= Len(s)
  /\ \A k \in 0..(PatternLen - 1) :
       IF k \in DashAt THEN s[i + k] = "-" ELSE s[i + k] \in Hex

\* ajv "pattern": new RegExp(PATTERN_UUID).test(s), an unanchored search
PATTERN_UUID(s) == \E i \in 1..Len(s) : MatchAt(s, i)

\* --id of the target process under test, and other strings a client may
\* send as its target parameter: the id after a junk character, and a string
\* of the same layout whose digits are not hexadecimal
TargetId == "11111111-1111-1111-1111-111111111111"
PaddedId == "x11111111-1111-1111-1111-111111111111"
NonHexId == "gggggggg-gggg-gggg-gggg-gggggggggggg"

\* the characters of these strings
Spell(str) ==
  CASE str = TargetId -> UuidOf("1")
    [] str = PaddedId -> <<"x">> \o UuidOf("1")
    [] str = NonHexId -> UuidOf("g")
    [] str = "A" -> UuidOf("a")
    [] str = "B" -> UuidOf("b")

\* JSON values as far as the validators look at them
Str(s) == [type |-> "string", chars |-> s]
Null == [type |-> "null", chars |-> "null"]

\* ajv {type: 'string', pattern: PATTERN_UUID}
VALIDATOR_TARGET(v) == v.type = "string" /\ PATTERN_UUID(Spell(v.chars))

\* more JSON values: a number, a property that is absent, an object as far as
\* its id property goes
Num(n) == [type |-> "number", chars |-> n]
Undefined == [type |-> "undefined", chars |-> "undefined"]
Obj(id) == [type |-> "object", id |-> id]

\* ajv {type: 'object', properties: {id: {type: 'string', pattern: PATTERN_UUID}}}:
\* no `required`, so the id is tested only when the object has one
VALIDATOR_CREATE(v) ==
  /\ v.type = "object"
  /\ v.id.type # "undefined" => (v.id.type = "string" /\ PATTERN_UUID(Spell(v.id.chars)))

VALIDATOR_REMOVE(v) ==
  /\ v.type = "object"
  /\ v.id.type # "undefined" => (v.id.type = "string" /\ PATTERN_UUID(Spell(v.id.chars)))

\* params.id as a Map key and inside a template string
IdOf(v) == v.id.chars

\* control payloads another client of the broker may publish on the create and
\* remove topics: text that is not JSON, a number, an object without id, an id
\* that is a number, that has no hexadecimal digits, that has a character in
\* front of a UUID
ControlTexts ==
  { "{", "5", "{}", "{\"id\":5}",
    "{\"id\":\"gggggggg-gggg-gggg-gggg-gggggggggggg\"}",
    "{\"id\":\"x11111111-1111-1111-1111-111111111111\"}" }

\* data payloads another client of the broker may publish on an in or out
\* topic: text that is not JSON, a packet whose seq is negative
DataTexts == { "{", "{\"seq\":-1,\"data\":\"x\"}" }

\* JSON.parse(_msg): the value, or a SyntaxError thrown
JSON_parse(text) ==
  CASE text = "{" -> [ok |-> FALSE, value |-> Undefined]
    [] text = "{\"seq\":-1,\"data\":\"x\"}" ->
         [ok |-> TRUE, value |-> [seq |-> -1, data |-> <<"x", 0>>]]
    [] text = "5" -> [ok |-> TRUE, value |-> Num("5")]
    [] text = "{}" -> [ok |-> TRUE, value |-> Obj(Undefined)]
    [] text = "{\"id\":5}" -> [ok |-> TRUE, value |-> Obj(Num("5"))]
    [] text = "{\"id\":\"gggggggg-gggg-gggg-gggg-gggggggggggg\"}" ->
         [ok |-> TRUE, value |-> Obj(Str(NonHexId))]
    [] text = "{\"id\":\"x11111111-1111-1111-1111-111111111111\"}" ->
         [ok |-> TRUE, value |-> Obj(Str(PaddedId))]

\* what url.searchParams.get('target') may return for a connecting client;
\* null when the request has no target parameter
TargetParams == { Str(TargetId), Str(PaddedId), Str(NonHexId), Null }

\* --prefix (default '')
Prefix == ""

\* `${args.prefix}${targetId}` and the topics derived from it, kept as the
\* tuple of their parts
TopicBase(targetId) == <<Prefix, targetId>>
TopicList(base) == <<base, "list">>
TopicCreate(base) == <<base, "create">>
TopicRemove(base) == <<base, "remove">>
TopicTtyIn(base, id) == <<base, id, "in">>
TopicTtyOut(base, id) == <<base, id, "out">>

\* uuid.v4(): a fresh id per call; connection c gets the id c
uuid_v4(c) == c

\* ---------------------------------------------------------------- packets
\* the k-th chunk a source emits (a client's k-th websocket message, a pty's
\* k-th output chunk); opaque to both programs
Chunk(src, k) == <<src, k>>

Packet(seq, data) == [seq |-> seq, data |-> data]

\* Array.prototype.sort((p1, p2) => p1.seq - p2.seq), stable
InsertBySeq(sorted, p) ==
  LET k == Cardinality({i \in 1..Len(sorted) : sorted[i].seq <= p.seq})
  IN SubSeq(sorted, 1, k) \o <<p>> \o SubSeq(sorted, k + 1, Len(sorted))

RECURSIVE SortBySeq(_)
SortBySeq(buf) ==
  IF Len(buf) <= 1 THEN buf
  ELSE InsertBySeq(SortBySeq(SubSeq(buf, 1, Len(buf) - 1)), buf[Len(buf)])

\* mutant of Drain: while (buffer.length), without the seq test
RECURSIVE DrainMutNoSeqTest(_, _, _)
DrainMutNoSeqTest(buf, seq, written) ==
  IF Len(buf) > 0
  THEN DrainMutNoSeqTest(Tail(buf), seq + 1, Append(written, Head(buf).data))
  ELSE [buffer |-> buf, seq |-> seq, written |-> written]

\* mutant of Drain: a head above the expected seq is written too (>= for ===)
RECURSIVE DrainMutSkipsGap(_, _, _)
DrainMutSkipsGap(buf, seq, written) ==
  IF Len(buf) > 0 /\ Head(buf).seq >= seq
  THEN DrainMutSkipsGap(Tail(buf), Head(buf).seq + 1, Append(written, Head(buf).data))
  ELSE [buffer |-> buf, seq |-> seq, written |-> written]

\* while (buffer.length && buffer[0].seq === seq) { write(buffer.shift().data); ++seq }
RECURSIVE DrainLoop(_, _, _)
DrainLoop(buf, seq, written) ==
  IF Len(buf) > 0 /\ Head(buf).seq = seq
  THEN DrainLoop(Tail(buf), seq + 1, Append(written, Head(buf).data))
  ELSE [buffer |-> buf, seq |-> seq, written |-> written]

Drain(buf, seq, written) == DrainLoop(buf, seq, written)

\* the body of both onMessage handlers after the topic test: push, sort, drain
Reassemble(buf, seq, packet) == Drain(SortBySeq(Append(buf, packet)), seq, <<>>)

\* ------------------------------------------------------------------ state
VARIABLES
  clients,    \* master: per connection, the closure of wsServer.on('connection'),
              \* what it sent to the client and published, the seqs that arrived,
              \* the ticks since the last pong
  masterSubs, \* master: topics its mqtt client is subscribed to
  shells,     \* target: the Map from session id to shell (its pty's pid)
  ptys,       \* target: per spawned pty, the closure of that ttyCreate call,
              \* what was written to the pty and published, the seqs that arrived
  targetSubs, \* target: topics its mqtt client is subscribed to
  connected,  \* target: its mqtt client is connected to the broker
  lastList,   \* broker: <<ids>> last published on the list topic, <<>> before any
  handled,    \* target: the control messages ttyCreate / ttyRemove were called with
  last,       \* what the handler run by the last step logged and called on its
              \* mqtt client, for the target's control handlers, a discarded
              \* data message and a handler that threw; Quiet after any other step
  crashed     \* the node processes ("master", "target") an uncaught exception ended

vars == <<clients, masterSubs, shells, ptys, targetSubs, connected, lastList, handled, last,
          crashed>>

Idle ==
  [ ws |-> "idle", target |-> Null, ttyId |-> NoId, isAlive |-> FALSE,
    heartbeat |-> FALSE, listener |-> FALSE, seqIn |-> 0, seqOut |-> 0,
    bufferOut |-> <<>>, sent |-> <<>>, arrived |-> {}, published |-> <<>>,
    silent |-> 0, pinged |-> FALSE, terminated |-> FALSE ]

Init ==
  /\ clients = [c \in Ids |-> Idle]
  /\ masterSubs = {}
  /\ shells = [id \in {} |-> 0]
  /\ ptys = <<>>
  /\ targetSubs = {}
  /\ connected = FALSE
  /\ lastList = <<>>
  /\ handled = {}
  /\ last = [handler |-> "none", id |-> NoId, log |-> "none", ops |-> <<>>]
  /\ crashed = {}

\* the process still runs: no exception has left one of its handlers uncaught
Running(proc) == proc \notin crashed

\* a handler's record in `last`
Ran(handler, id, log, ops) == [handler |-> handler, id |-> id, log |-> log, ops |-> ops]
Quiet == Ran("none", NoId, "none", <<>>)

\* payloads: {id} of create / remove, {seq, data} of in / out, the id list
Payload(id) == [id |-> id]
ListOf(ids) == [ids |-> ids]
Pub(topic, payload) == [op |-> "publish", topic |-> topic, payload |-> payload]
Sub(topic) == [op |-> "subscribe", topic |-> topic]
Unsub(topic) == [op |-> "unsubscribe", topic |-> topic]

\* data packets published so far, by the master and by the target
DataOf(log) == {i \in 1..Len(log) : "seq" \in DOMAIN log[i].payload}
TotalPackets ==
  LET RECURSIVE SumC(_)
      SumC(S) == IF S = {} THEN 0
                 ELSE LET c == CHOOSE x \in S : TRUE
                      IN Cardinality(DataOf(clients[c].published)) + SumC(S \ {c})
      RECURSIVE SumP(_)
      SumP(n) == IF n = 0 THEN 0 ELSE Len(ptys[n].published) + SumP(n - 1)
  IN SumC(Ids) + SumP(Len(ptys))

\* the topic base a connection publishes under, and the target's own
BaseOf(c) == TopicBase(clients[c].target.chars)
TargetBase == TopicBase(TargetId)

\* connections are named in the order they arrive
Earlier(c) == IF c = "B" THEN {"A"} ELSE {}

\* ----------------------------------------------------------------- master
\* mutant of Accept: let isAlive = false, so the first tick terminates
AcceptMutNotAlive(c, t) ==
  LET ttyId == uuid_v4(c)
      base == TopicBase(t.chars)
  IN /\ clients' = [clients EXCEPT ![c] =
          [ ws |-> "open", target |-> t, ttyId |-> ttyId, isAlive |-> FALSE,
            heartbeat |-> TRUE, listener |-> TRUE, seqIn |-> 0, seqOut |-> 0,
            bufferOut |-> <<>>, sent |-> <<>>, arrived |-> {},
            published |-> <<Pub(TopicCreate(base), Payload(ttyId))>>,
            silent |-> 0, pinged |-> FALSE, terminated |-> FALSE ]]
     /\ masterSubs' = masterSubs \cup {TopicTtyOut(base, ttyId)}
     /\ last' = Quiet

\* mutant of Accept: the publish on the create topic is missing
AcceptMutNoCreate(c, t) ==
  LET ttyId == uuid_v4(c)
      base == TopicBase(t.chars)
  IN /\ clients' = [clients EXCEPT ![c] =
          [ ws |-> "open", target |-> t, ttyId |-> ttyId, isAlive |-> TRUE,
            heartbeat |-> TRUE, listener |-> TRUE, seqIn |-> 0, seqOut |-> 0,
            bufferOut |-> <<>>, sent |-> <<>>, arrived |-> {},
            published |-> <<>>,
            silent |-> 0, pinged |-> FALSE, terminated |-> FALSE ]]
     /\ masterSubs' = masterSubs \cup {TopicTtyOut(base, ttyId)}
     /\ last' = Quiet

\* wsServer.on('connection'): t is url.searchParams.get('target')
Accept(c, t) ==
  LET ttyId == uuid_v4(c)
      base == TopicBase(t.chars)
  IN /\ clients' = [clients EXCEPT ![c] =
          [ ws |-> "open", target |-> t, ttyId |-> ttyId, isAlive |-> TRUE,
            heartbeat |-> TRUE, listener |-> TRUE, seqIn |-> 0, seqOut |-> 0,
            bufferOut |-> <<>>, sent |-> <<>>, arrived |-> {},
            published |-> <<Pub(TopicCreate(base), Payload(ttyId))>>,
            silent |-> 0, pinged |-> FALSE, terminated |-> FALSE ]]
     /\ masterSubs' = masterSubs \cup {TopicTtyOut(base, ttyId)}
     /\ last' = Quiet

Refuse(c, t) ==
  /\ clients' = [clients EXCEPT ![c] = [Idle EXCEPT !.ws = "refused", !.target = t]]
  /\ masterSubs' = masterSubs
  /\ last' = Quiet

WsConnection(c, t) ==
  /\ Running("master")
  /\ clients[c].ws = "idle"
  /\ \A d \in Earlier(c) : clients[d].ws # "idle"
  /\ IF ~VALIDATOR_TARGET(t) THEN Refuse(c, t) ELSE Accept(c, t)
  /\ UNCHANGED <<shells, ptys, targetSubs, connected, lastList, handled, crashed>>

\* mutant of Tick: isAlive = false is missing, so no tick ever terminates
TickMutKeepsFlag(c) ==
  /\ Running("master")
  /\ clients[c].heartbeat
  /\ clients[c].silent < MaxTicks
  /\ IF ~clients[c].isAlive
     THEN /\ clients' = [clients EXCEPT
                ![c].ws = IF @ = "open" THEN "closing" ELSE @,
                ![c].terminated = TRUE,
                ![c].silent = @ + 1]
          /\ last' = Quiet
     ELSE /\ clients' = [clients EXCEPT
                ![c].pinged = TRUE,
                ![c].silent = @ + 1]
          /\ last' = Quiet
  /\ UNCHANGED <<masterSubs, shells, ptys, targetSubs, connected, lastList, handled, crashed>>

\* setInterval(() => {...}, HEARTBEAT_INTERVAL)
Tick(c) ==
  /\ Running("master")
  /\ clients[c].heartbeat
  /\ clients[c].silent < MaxTicks
  /\ IF ~clients[c].isAlive
     THEN /\ clients' = [clients EXCEPT
                ![c].ws = IF @ = "open" THEN "closing" ELSE @,
                ![c].terminated = TRUE,
                ![c].silent = @ + 1]
          /\ last' = Quiet
     ELSE /\ clients' = [clients EXCEPT
                ![c].isAlive = FALSE,
                ![c].pinged = TRUE,
                ![c].silent = @ + 1]
          /\ last' = Quiet
  /\ UNCHANGED <<masterSubs, shells, ptys, targetSubs, connected, lastList, handled, crashed>>

\* _wsClient.on('pong', () => isAlive = true)
WsPong(c) ==
  /\ Running("master")
  /\ clients[c].ws = "open"
  /\ clients' = [clients EXCEPT ![c].isAlive = TRUE, ![c].pinged = FALSE, ![c].silent = 0]
  /\ last' = Quiet
  /\ UNCHANGED <<masterSubs, shells, ptys, targetSubs, connected, lastList, handled, crashed>>

\* _wsClient.on('error'): logged; ws then closes the socket and emits 'close'
WsError(c) ==
  /\ Running("master")
  /\ clients[c].ws = "open"
  /\ clients' = [clients EXCEPT ![c].ws = "closing"]
  /\ last' = Quiet
  /\ UNCHANGED <<masterSubs, shells, ptys, targetSubs, connected, lastList, handled, crashed>>

\* mutant of WsMessage: seq: ++seqIn, so the first packet carries seq 1
WsMessageMutPreIncrement(c) ==
  /\ Running("master")
  /\ clients[c].ws = "open"
  /\ TotalPackets < MaxPkts
  /\ LET packet == Packet(clients[c].seqIn + 1,
                          Chunk(c, Cardinality(DataOf(clients[c].published))))
         msg == Pub(TopicTtyIn(BaseOf(c), clients[c].ttyId), packet)
     IN /\ clients' = [clients EXCEPT
              ![c].seqIn = @ + 1,
              ![c].published = Append(@, msg)]
        /\ last' = Quiet
  /\ UNCHANGED <<masterSubs, shells, ptys, targetSubs, connected, lastList, handled, crashed>>

\* _wsClient.on('message'): one packet per websocket message
WsMessage(c) ==
  /\ Running("master")
  /\ clients[c].ws = "open"
  /\ TotalPackets < MaxPkts
  /\ LET packet == Packet(clients[c].seqIn,
                          Chunk(c, Cardinality(DataOf(clients[c].published))))
         msg == Pub(TopicTtyIn(BaseOf(c), clients[c].ttyId), packet)
     IN /\ clients' = [clients EXCEPT
              ![c].seqIn = @ + 1,
              ![c].published = Append(@, msg)]
        /\ last' = Quiet
  /\ UNCHANGED <<masterSubs, shells, ptys, targetSubs, connected, lastList, handled, crashed>>

\* what the broker was given: every message the master and the target published
Range(seq) == {seq[i] : i \in 1..Len(seq)}
MasterPublished == UNION {Range(clients[c].published) : c \in Ids}
TargetPublished == UNION {Range(ptys[p].published) : p \in 1..Len(ptys)}

\* mutant of MasterOnMessage: the test _topic !== topicTtyOut is missing
MasterOnMessageMutNoTopicTest(c, m) ==
  /\ Running("master")
  /\ m \in TargetPublished
  /\ m.topic \in masterSubs
  /\ clients[c].listener
  /\ Len(clients[c].bufferOut) < MaxBuf
  /\ LET r == Reassemble(clients[c].bufferOut, clients[c].seqOut, m.payload)
     IN /\ clients' = [clients EXCEPT
              ![c].bufferOut = r.buffer,
              ![c].seqOut = r.seq,
              ![c].sent = @ \o r.written,
              ![c].arrived = @ \cup {m.payload.seq}]
        /\ last' = Quiet
  /\ UNCHANGED <<masterSubs, shells, ptys, targetSubs, connected, lastList, handled, crashed>>

\* onMessage of connection c, called with a message of the broker; the broker
\* may deliver a published message late, more than once, or never
MasterOnMessage(c, m) ==
  /\ Running("master")
  /\ m \in TargetPublished
  /\ m.topic \in masterSubs
  /\ clients[c].listener
  /\ m.topic = TopicTtyOut(BaseOf(c), clients[c].ttyId)
  /\ Len(clients[c].bufferOut) < MaxBuf
  /\ LET r == Reassemble(clients[c].bufferOut, clients[c].seqOut, m.payload)
     IN /\ clients' = [clients EXCEPT
              ![c].bufferOut = r.buffer,
              ![c].seqOut = r.seq,
              ![c].sent = @ \o r.written,
              ![c].arrived = @ \cup {m.payload.seq}]
        /\ last' = Quiet
  /\ UNCHANGED <<masterSubs, shells, ptys, targetSubs, connected, lastList, handled, crashed>>

\* mutant of CloseHandler: clearInterval(heartbeat) is missing
CloseMutKeepsTimer(c) ==
  LET topicTtyOut == TopicTtyOut(BaseOf(c), clients[c].ttyId)
      remove == Pub(TopicRemove(BaseOf(c)), Payload(clients[c].ttyId))
  IN /\ clients' = [clients EXCEPT
           ![c].ws = "closed",
           ![c].listener = FALSE,
           ![c].published = Append(@, remove)]
     /\ masterSubs' = masterSubs \ {topicTtyOut}
     /\ last' = Quiet

\* _wsClient.on('close'): emitted once per socket, after the client closed it,
\* after terminate(), or after an error
CloseHandler(c) ==
  LET topicTtyOut == TopicTtyOut(BaseOf(c), clients[c].ttyId)
      remove == Pub(TopicRemove(BaseOf(c)), Payload(clients[c].ttyId))
  IN /\ clients' = [clients EXCEPT
           ![c].ws = "closed",
           ![c].heartbeat = FALSE,
           ![c].listener = FALSE,
           ![c].published = Append(@, remove)]
     /\ masterSubs' = masterSubs \ {topicTtyOut}
     /\ last' = Quiet

WsClose(c) ==
  /\ Running("master")
  /\ clients[c].ws \in {"open", "closing"}
  /\ CloseHandler(c)
  /\ UNCHANGED <<shells, ptys, targetSubs, connected, lastList, handled, crashed>>

\* ----------------------------------------------------------------- target
Keys(map) == DOMAIN map
MapSet(map, k, v) == [x \in DOMAIN map \cup {k} |-> IF x = k THEN v ELSE map[x]]
MapDelete(map, k) == [x \in DOMAIN map \ {k} |-> map[x]]

\* ttyList(): publish the keys of shells on the list topic
TtyList(keys) == Pub(TopicList(TargetBase), ListOf(keys))

\* mqttClient.on('connect'); mqtt.js reconnects on its own and emits it again
MqttConnect ==
  /\ Running("target")
  /\ ~connected
  /\ connected' = TRUE
  /\ lastList' = <<Keys(shells)>>
  /\ targetSubs' = targetSubs \cup {TopicCreate(TargetBase), TopicRemove(TargetBase)}
  /\ last' = Ran("connect", NoId, "none",
                 <<TtyList(Keys(shells)), Sub(TopicCreate(TargetBase)),
                   Sub(TopicRemove(TargetBase))>>)
  /\ UNCHANGED <<clients, masterSubs, shells, ptys, handled, crashed>>

\* the broker connection drops; mqtt.js keeps the subscriptions for the reconnect
MqttOffline ==
  /\ Running("target")
  /\ connected
  /\ connected' = FALSE
  /\ last' = Quiet
  /\ UNCHANGED <<clients, masterSubs, shells, ptys, targetSubs, lastList, handled, crashed>>

\* the part of ttyCreate after the shells.has test
SpawnShell(id) ==
  LET pid == Len(ptys) + 1
      topicTtyIn == TopicTtyIn(TargetBase, id)
      keys == Keys(shells) \cup {id}
  IN /\ Len(ptys) < MaxSpawn
     /\ ptys' = Append(ptys,
          [ id |-> id, alive |-> TRUE, killed |-> FALSE, stdin |-> <<>>,
            arrived |-> {}, seqIn |-> 0, seqOut |-> 0, bufferIn |-> <<>>, listening |-> TRUE,
            published |-> <<>> ])
     /\ targetSubs' = targetSubs \cup {topicTtyIn}
     /\ shells' = MapSet(shells, id, pid)
     /\ lastList' = <<keys>>
     /\ last' = Ran("tty.create", id, "info", <<Sub(topicTtyIn), TtyList(keys)>>)

RejectCreate(id) ==
  /\ last' = Ran("tty.create", id, "warn", <<>>)
  /\ UNCHANGED <<shells, ptys, targetSubs, lastList>>

\* mutant of CreateBody: the shells.has(params.id) test is missing
CreateMutNoHasTest(id) == SpawnShell(id)

\* ttyCreate after validation: the shells.has test, then the spawn
CreateBody(id) ==
  IF id \in Keys(shells) THEN RejectCreate(id) ELSE SpawnShell(id)

\* the 'message' handler's case topicCreate: ttyCreate(_msg) with _msg = {id}
TtyCreate(id) ==
  /\ Running("target")
  /\ connected
  /\ TopicCreate(TargetBase) \in targetSubs
  /\ Pub(TopicCreate(TargetBase), Payload(id)) \in MasterPublished
  /\ CreateBody(id)
  /\ handled' = handled \cup {<<"create", id>>}
  /\ UNCHANGED <<clients, masterSubs, connected, crashed>>

\* mutant of RemoveBody: ttyRemove itself deletes the registry entry
RemoveMutDeletes(id) ==
  /\ IF id \notin Keys(shells)
     THEN /\ last' = Ran("tty.remove", id, "warn", <<>>)
          /\ ptys' = ptys
          /\ shells' = shells
     ELSE /\ last' = Ran("tty.remove", id, "info", <<[op |-> "kill", pid |-> shells[id]]>>)
          /\ ptys' = [ptys EXCEPT ![shells[id]].killed = TRUE]
          /\ shells' = MapDelete(shells, id)
  /\ UNCHANGED <<targetSubs, lastList>>

\* ttyRemove after validation: shells.get, then kill(9) of the shell found
RemoveBody(id) ==
  /\ IF id \notin Keys(shells)
     THEN /\ last' = Ran("tty.remove", id, "warn", <<>>)
          /\ ptys' = ptys
     ELSE /\ last' = Ran("tty.remove", id, "info", <<[op |-> "kill", pid |-> shells[id]]>>)
          /\ ptys' = [ptys EXCEPT ![shells[id]].killed = TRUE]
  /\ UNCHANGED <<shells, targetSubs, lastList>>

\* the 'message' handler's case topicRemove: ttyRemove(_msg) with _msg = {id}
TtyRemove(id) ==
  /\ Running("target")
  /\ connected
  /\ TopicRemove(TargetBase) \in targetSubs
  /\ Pub(TopicRemove(TargetBase), Payload(id)) \in MasterPublished
  /\ RemoveBody(id)
  /\ handled' = handled \cup {<<"remove", id>>}
  /\ UNCHANGED <<clients, masterSubs, connected, crashed>>

\* mutant of ExitHandler: the trailing ttyList() is missing
ExitMutNoList(pid) ==
  LET id == ptys[pid].id
      topicTtyIn == TopicTtyIn(TargetBase, id)
  IN /\ ptys' = [ptys EXCEPT ![pid].alive = FALSE, ![pid].listening = FALSE]
     /\ targetSubs' = targetSubs \ {topicTtyIn}
     /\ shells' = MapDelete(shells, id)
     /\ lastList' = lastList
     /\ last' = Ran("onExit", id, "none", <<Unsub(topicTtyIn)>>)

\* mutant of ExitHandler: ttyList() is called before shells.delete(params.id)
ExitMutListFirst(pid) ==
  LET id == ptys[pid].id
      topicTtyIn == TopicTtyIn(TargetBase, id)
      keys == Keys(shells)
  IN /\ ptys' = [ptys EXCEPT ![pid].alive = FALSE, ![pid].listening = FALSE]
     /\ targetSubs' = targetSubs \ {topicTtyIn}
     /\ shells' = MapDelete(shells, id)
     /\ lastList' = <<keys>>
     /\ last' = Ran("onExit", id, "none", <<Unsub(topicTtyIn), TtyList(keys)>>)

\* mutant of ExitHandler: mqttClient.off('message', shell.onMessage) is missing
ExitMutKeepsListener(pid) ==
  LET id == ptys[pid].id
      topicTtyIn == TopicTtyIn(TargetBase, id)
      keys == Keys(shells) \ {id}
  IN /\ ptys' = [ptys EXCEPT ![pid].alive = FALSE]
     /\ targetSubs' = targetSubs \ {topicTtyIn}
     /\ shells' = MapDelete(shells, id)
     /\ lastList' = <<keys>>
     /\ last' = Ran("onExit", id, "none", <<Unsub(topicTtyIn), TtyList(keys)>>)

\* shell.process.onExit of pty pid: the process ended, killed or on its own
ExitHandler(pid) ==
  LET id == ptys[pid].id
      topicTtyIn == TopicTtyIn(TargetBase, id)
      keys == Keys(shells) \ {id}
  IN /\ ptys' = [ptys EXCEPT ![pid].alive = FALSE, ![pid].listening = FALSE]
     /\ targetSubs' = targetSubs \ {topicTtyIn}
     /\ shells' = MapDelete(shells, id)
     /\ lastList' = <<keys>>
     /\ last' = Ran("onExit", id, "none", <<Unsub(topicTtyIn), TtyList(keys)>>)

OnExit(pid) ==
  /\ Running("target")
  /\ pid \in 1..Len(ptys)
  /\ ptys[pid].alive
  /\ ExitHandler(pid)
  /\ UNCHANGED <<clients, masterSubs, connected, handled, crashed>>

\* shell.process.onData of pty pid: one packet per output chunk
OnData(pid) ==
  /\ Running("target")
  /\ pid \in 1..Len(ptys)
  /\ ptys[pid].alive
  /\ TotalPackets < MaxPkts
  /\ LET packet == Packet(ptys[pid].seqOut, Chunk(pid, Len(ptys[pid].published)))
         msg == Pub(TopicTtyOut(TargetBase, ptys[pid].id), packet)
     IN /\ ptys' = [ptys EXCEPT
              ![pid].seqOut = @ + 1,
              ![pid].published = Append(@, msg)]
        /\ last' = Quiet
  /\ UNCHANGED <<clients, masterSubs, shells, targetSubs, connected, lastList, handled, crashed>>

\* shell.onMessage of pty pid, called with a message of the broker
ShellOnMessage(pid, m) ==
  /\ Running("target")
  /\ pid \in 1..Len(ptys)
  /\ m \in MasterPublished
  /\ connected
  /\ m.topic \in targetSubs
  /\ ptys[pid].listening
  /\ m.topic = TopicTtyIn(TargetBase, ptys[pid].id)
  /\ Len(ptys[pid].bufferIn) < MaxBuf
  /\ LET r == Reassemble(ptys[pid].bufferIn, ptys[pid].seqIn, m.payload)
     IN /\ ptys' = [ptys EXCEPT
              ![pid].bufferIn = r.buffer,
              ![pid].seqIn = r.seq,
              ![pid].stdin = @ \o r.written,
              ![pid].arrived = @ \cup {m.payload.seq}]
        /\ last' = Quiet
  /\ UNCHANGED <<clients, masterSubs, shells, targetSubs, connected, lastList, handled, crashed>>

\* the target's 'message' event for a data packet on the in topic of a session
\* no listener is registered for: the 'message' handler's switch matches
\* neither control topic and every shell.onMessage returns at its topic test
DiscardIn(m) ==
  /\ Running("target")
  /\ connected
  /\ m \in MasterPublished
  /\ "seq" \in DOMAIN m.payload
  /\ m.topic[1] = TargetBase
  /\ \A pid \in 1..Len(ptys) :
       ~(ptys[pid].listening /\ m.topic = TopicTtyIn(TargetBase, ptys[pid].id))
  /\ last' = Ran("message", m.topic[2], "none", <<>>)
  /\ UNCHANGED <<clients, masterSubs, shells, ptys, targetSubs, connected, lastList, handled,
                 crashed>>

\* an exception leaves the handler: the remaining listeners of the event are not
\* called; neither program catches it or installs an uncaughtException handler,
\* so the process ends unless the mqtt library's caller catches it
Throw(proc, handler) ==
  /\ crashed' \in {crashed, crashed \cup {proc}}
  /\ last' = Ran(handler, NoId, "throw", <<>>)

\* the 'message' handler's case topicCreate, called with the text another client
\* published: JSON.parse, VALIDATOR_CREATE, then the rest of ttyCreate
ForeignCreate(text) ==
  /\ Running("target")
  /\ connected
  /\ TopicCreate(TargetBase) \in targetSubs
  /\ LET parsed == JSON_parse(text)
     IN IF ~parsed.ok
        THEN /\ Throw("target", "tty.create")
             /\ UNCHANGED <<shells, ptys, targetSubs, lastList, handled>>
        ELSE IF ~VALIDATOR_CREATE(parsed.value)
        THEN /\ last' = Ran("tty.create", NoId, "error", <<>>)
             /\ UNCHANGED <<shells, ptys, targetSubs, lastList, handled, crashed>>
        ELSE /\ CreateBody(IdOf(parsed.value))
             /\ handled' = handled \cup {<<"create", IdOf(parsed.value)>>}
             /\ crashed' = crashed
  /\ UNCHANGED <<clients, masterSubs, connected>>

\* the 'message' handler's case topicRemove, called with the text another client
\* published: JSON.parse, VALIDATOR_REMOVE, then the rest of ttyRemove
ForeignRemove(text) ==
  /\ Running("target")
  /\ connected
  /\ TopicRemove(TargetBase) \in targetSubs
  /\ LET parsed == JSON_parse(text)
     IN IF ~parsed.ok
        THEN /\ Throw("target", "tty.remove")
             /\ UNCHANGED <<shells, ptys, targetSubs, lastList, handled>>
        ELSE IF ~VALIDATOR_REMOVE(parsed.value)
        THEN /\ last' = Ran("tty.remove", NoId, "error", <<>>)
             /\ UNCHANGED <<shells, ptys, targetSubs, lastList, handled, crashed>>
        ELSE /\ RemoveBody(IdOf(parsed.value))
             /\ handled' = handled \cup {<<"remove", IdOf(parsed.value)>>}
             /\ crashed' = crashed
  /\ UNCHANGED <<clients, masterSubs, connected>>

\* shell.onMessage of pty pid, called with the text another client published
\* on the session's in topic
ForeignIn(pid, text) ==
  /\ Running("target")
  /\ pid \in 1..Len(ptys)
  /\ connected
  /\ TopicTtyIn(TargetBase, ptys[pid].id) \in targetSubs
  /\ ptys[pid].listening
  /\ Len(ptys[pid].bufferIn) < MaxBuf
  /\ LET parsed == JSON_parse(text)
     IN IF ~parsed.ok
        THEN /\ Throw("target", "shell.onMessage")
             /\ ptys' = ptys
        ELSE LET r == Reassemble(ptys[pid].bufferIn, ptys[pid].seqIn, parsed.value)
             IN /\ ptys' = [ptys EXCEPT
                      ![pid].bufferIn = r.buffer,
                      ![pid].seqIn = r.seq,
                      ![pid].stdin = @ \o r.written,
                      ![pid].arrived = @ \cup {parsed.value.seq}]
                /\ last' = Quiet
                /\ crashed' = crashed
  /\ UNCHANGED <<clients, masterSubs, shells, targetSubs, connected, lastList, handled>>

\* onMessage of connection c, called with the text another client published on
\* the session's out topic
ForeignOut(c, text) ==
  /\ Running("master")
  /\ TopicTtyOut(BaseOf(c), clients[c].ttyId) \in masterSubs
  /\ clients[c].listener
  /\ Len(clients[c].bufferOut) < MaxBuf
  /\ LET parsed == JSON_parse(text)
     IN IF ~parsed.ok
        THEN /\ Throw("master", "onMessage")
             /\ clients' = clients
        ELSE LET r == Reassemble(clients[c].bufferOut, clients[c].seqOut, parsed.value)
             IN /\ clients' = [clients EXCEPT
                      ![c].bufferOut = r.buffer,
                      ![c].seqOut = r.seq,
                      ![c].sent = @ \o r.written,
                      ![c].arrived = @ \cup {parsed.value.seq}]
                /\ last' = Quiet
                /\ crashed' = crashed
  /\ UNCHANGED <<masterSubs, shells, ptys, targetSubs, connected, lastList, handled>>

\* ------------------------------------------------------------ composition
Next ==
  \/ \E c \in Ids, t \in TargetParams : WsConnection(c, t)
  \/ \E c \in Ids : Tick(c)
  \/ \E c \in Ids : WsPong(c)
  \/ \E c \in Ids : WsError(c)
  \/ \E c \in Ids : WsMessage(c)
  \/ \E c \in Ids : \E m \in TargetPublished : MasterOnMessage(c, m)
  \/ \E c \in Ids : WsClose(c)
  \/ MqttConnect
  \/ MqttOffline
  \/ \E id \in Ids : TtyCreate(id)
  \/ \E id \in Ids : TtyRemove(id)
  \/ \E pid \in 1..MaxSpawn : OnExit(pid)
  \/ \E pid \in 1..MaxSpawn : OnData(pid)
  \/ \E pid \in 1..MaxSpawn : \E m \in MasterPublished : ShellOnMessage(pid, m)
  \/ \E m \in MasterPublished : DiscardIn(m)
  \/ \E text \in ControlTexts : ForeignCreate(text)
  \/ \E text \in ControlTexts : ForeignRemove(text)
  \/ \E pid \in 1..MaxSpawn : \E text \in DataTexts : ForeignIn(pid, text)
  \/ \E c \in Ids : \E text \in DataTexts : ForeignOut(c, text)

Spec == Init /\ [][Next]_vars

\* the data plane: sessions are opened and created, packets flow both ways
NextSeq ==
  \/ \E c \in Ids : WsConnection(c, Str(TargetId))
  \/ MqttConnect
  \/ \E id \in Ids : TtyCreate(id)
  \/ \E c \in Ids : WsMessage(c)
  \/ \E c \in Ids : \E m \in TargetPublished : MasterOnMessage(c, m)
  \/ \E pid \in 1..MaxSpawn : OnData(pid)
  \/ \E pid \in 1..MaxSpawn : \E m \in MasterPublished : ShellOnMessage(pid, m)

SpecSeq == Init /\ [][NextSeq]_vars

\* the session registry of the target, driven by the master's control messages
NextTarget ==
  \/ \E c \in Ids : WsConnection(c, Str(TargetId))
  \/ \E c \in Ids : WsClose(c)
  \/ MqttConnect
  \/ MqttOffline
  \/ \E id \in Ids : TtyCreate(id)
  \/ \E id \in Ids : TtyRemove(id)
  \/ \E pid \in 1..MaxSpawn : OnExit(pid)

SpecTarget == Init /\ [][NextTarget]_vars

\* the target's control topics, written by the master and by other clients of
\* the broker
NextControl ==
  \/ WsConnection("A", Str(TargetId))
  \/ WsClose("A")
  \/ MqttConnect
  \/ TtyCreate("A")
  \/ TtyRemove("A")
  \/ \E pid \in 1..MaxSpawn : OnExit(pid)
  \/ \E text \in ControlTexts : ForeignCreate(text)
  \/ \E text \in ControlTexts : ForeignRemove(text)

SpecControl == Init /\ [][NextControl]_vars

\* the data plane of one session, its topics written also by other clients of
\* the broker
NextPacket ==
  \/ WsConnection("A", Str(TargetId))
  \/ MqttConnect
  \/ TtyCreate("A")
  \/ WsMessage("A")
  \/ \E m \in TargetPublished : MasterOnMessage("A", m)
  \/ \E pid \in 1..MaxSpawn : OnData(pid)
  \/ \E pid \in 1..MaxSpawn : \E m \in MasterPublished : ShellOnMessage(pid, m)
  \/ \E pid \in 1..MaxSpawn : \E text \in DataTexts : ForeignIn(pid, text)
  \/ \E text \in DataTexts : ForeignOut("A", text)

SpecPacket == Init /\ [][NextPacket]_vars

\* two sessions side by side: session A carries data both ways while session B
\* goes through its life (heartbeat, close, remove, exit); a session whose
\* shell has exited is not created again, and the broker delivers a packet to
\* a handler only while the handler's reorder buffer is empty
NextFrame ==
  \/ \E c \in Ids : WsConnection(c, Str(TargetId))
  \/ MqttConnect
  \/ \E id \in Ids :
       (\A pid \in 1..Len(ptys) : ptys[pid].id = id => ptys[pid].alive) /\ TtyCreate(id)
  \/ WsMessage("A")
  \/ \E c \in Ids : \E m \in TargetPublished :
       clients[c].bufferOut = <<>> /\ MasterOnMessage(c, m)
  \/ \E pid \in 1..MaxSpawn : OnData(pid) /\ ptys[pid].id = "A"
  \/ \E pid \in 1..MaxSpawn : \E m \in MasterPublished :
       pid <= Len(ptys) /\ ptys[pid].bufferIn = <<>> /\ ShellOnMessage(pid, m)
  \/ Tick("B")
  \/ WsPong("B")
  \/ WsError("B")
  \/ WsClose("B")
  \/ TtyRemove("B")
  \/ \E pid \in 1..MaxSpawn : OnExit(pid) /\ ptys[pid].id = "B"

SpecFrame == Init /\ [][NextFrame]_vars

\* the in direction of one session over its whole life on the target: data
\* packets arrive before the create, while the session is registered, and
\* after its process has exited; the session is created at most twice, and
\* the broker delivers a packet to a handler only while its reorder buffer is
\* empty
NextRoute ==
  \/ WsConnection("A", Str(TargetId))
  \/ WsClose("A")
  \/ WsMessage("A")
  \/ MqttConnect
  \/ Len(ptys) < 2 /\ TtyCreate("A")
  \/ TtyRemove("A")
  \/ \E pid \in 1..MaxSpawn : OnExit(pid)
  \/ \E pid \in 1..MaxSpawn : \E m \in MasterPublished :
       pid <= Len(ptys) /\ ptys[pid].bufferIn = <<>> /\ ShellOnMessage(pid, m)
  \/ \E m \in MasterPublished : DiscardIn(m)

SpecRoute == Init /\ [][NextRoute]_vars

\* one connection of the master from its request to its close, whatever its
\* target parameter and whatever closes it, with the target serving its session
NextMaster ==
  \/ \E t \in TargetParams : WsConnection("A", t)
  \/ Tick("A")
  \/ WsPong("A")
  \/ WsError("A")
  \/ WsMessage("A")
  \/ WsClose("A")
  \/ \E m \in TargetPublished : MasterOnMessage("A", m)
  \/ MqttConnect
  \/ TtyCreate("A")
  \/ \E pid \in 1..MaxSpawn : OnData(pid)
  \/ \E pid \in 1..MaxSpawn : \E m \in MasterPublished : ShellOnMessage(pid, m)

SpecMaster == Init /\ [][NextMaster]_vars

\* ------------------------------------------------------------ properties
\* the packets published on a topic, by either program
OnTopic(msgs, topic) == {m \in msgs : m.topic = topic}

\* sink[i] is the data of the packet with seq i - 1 among msgs
InSeqOrder(sink, msgs) ==
  \A i \in 1..Len(sink) :
    \E m \in msgs : m.payload.seq = i - 1 /\ m.payload.data = sink[i]

\* the `in` packets of pty pid's session, the `out` packets of connection c's
InPackets(pid) == OnTopic(MasterPublished, TopicTtyIn(TargetBase, ptys[pid].id))
OutPackets(c) == OnTopic(TargetPublished, TopicTtyOut(BaseOf(c), clients[c].ttyId))

Pids == 1..Len(ptys)
Accepted(c) == clients[c].ws \in {"open", "closing", "closed"}

\* C1: at every moment, what was written to a pty (target, `in`) and what was
\* sent to a client websocket (master, `out`) is the data of seq 0, 1, ..., k-1
\* in that order, whatever the order and the repetitions of the arrivals
C1_InOrderDelivery ==
  /\ \A pid \in Pids :
       /\ InSeqOrder(ptys[pid].stdin, InPackets(pid))
       /\ Len(ptys[pid].stdin) = ptys[pid].seqIn
  /\ \A c \in Ids :
       /\ InSeqOrder(clients[c].sent, OutPackets(c))
       /\ Len(clients[c].sent) = clients[c].seqOut

\* C1 witness: a pty got seq 0 and 1 in order while a repeated packet sits in
\* its buffer, and a client got its first chunk
C1_Witness ==
  /\ \E pid \in Pids : Len(ptys[pid].stdin) = 2 /\ ptys[pid].bufferIn # <<>>
  /\ \E c \in Ids : Len(clients[c].sent) = 1

\* the seqs 0..n-1 such that each has arrived at least once
AllArrived(arrived, n) == \A k \in 0..(n - 1) : k \in arrived

\* C2 (as claimed): once every seq of 0..N-1 has arrived at least once, the sink
\* has received the N data values in seq order, duplicates or not
C2_AllArrivedAllDelivered ==
  /\ \A pid \in Pids : \A n \in 1..MaxPkts :
       AllArrived(ptys[pid].arrived, n) =>
         /\ Len(ptys[pid].stdin) >= n
         /\ InSeqOrder(ptys[pid].stdin, InPackets(pid))
  /\ \A c \in Ids : \A n \in 1..MaxPkts :
       AllArrived(clients[c].arrived, n) =>
         /\ Len(clients[c].sent) >= n
         /\ InSeqOrder(clients[c].sent, OutPackets(c))

\* the data packets of a publication log, in publication order
DataLog(log) == SelectSeq(log, LAMBDA m : "seq" \in DOMAIN m.payload)

\* the seqs of a log are 0, 1, 2, ... in publication order
CountsFromZero(log) == \A i \in 1..Len(log) : log[i].payload.seq = i - 1

\* C3: per session and direction, the seq numbers of the published packets are
\* 0, 1, 2, ... in publication order, each session counting on its own
C3_SeqNumbersCountFromZero ==
  /\ \A c \in Ids : CountsFromZero(DataLog(clients[c].published))
  /\ \A pid \in Pids : CountsFromZero(ptys[pid].published)

\* C3 witness: one connection has published two packets while another session
\* has published one
C3_Witness ==
  /\ Len(DataLog(clients["A"].published)) = 2
  /\ \E pid \in Pids : ptys[pid].id = "B" /\ Len(ptys[pid].published) = 1

\* the live pty processes bound to a session id
LiveOf(id) == {pid \in Pids : ptys[pid].id = id /\ ptys[pid].alive}

\* the list publishes among a handler's calls
ListOps(ops) ==
  SelectSeq(ops, LAMBDA o : o.op = "publish" /\ o.topic = TopicList(TargetBase))

\* C4: a create for a session id already in the registry spawns nothing, leaves
\* the registry, the session's closure and the subscriptions as they were and
\* logs a warning; so at any time at most one live process is bound to an id,
\* the one the registry holds
C4_DuplicateCreateIsNoOp ==
  /\ [](\A id \in Ids :
          /\ Cardinality(LiveOf(id)) <= 1
          /\ id \in Keys(shells) => LiveOf(id) = {shells[id]})
  /\ [][ (last'.handler = "tty.create" /\ last'.id \in Keys(shells)) =>
           /\ shells' = shells
           /\ ptys' = ptys
           /\ targetSubs' = targetSubs
           /\ lastList' = lastList
           /\ last'.log = "warn"
           /\ last'.ops = <<>> ]_vars

\* C4 witness: ttyCreate has just refused a create for a registered id, whose
\* one process is alive
C4_Witness ==
  /\ last.handler = "tty.create"
  /\ last.log = "warn"
  /\ last.id \in Keys(shells)
  /\ LiveOf(last.id) = {shells[last.id]}

\* C5: a handler that changes the registry's keys publishes the new keys on the
\* list topic before it returns, so the last published list is the registry's
\* key set; a refused create and a remove publish no list
C5_ListFollowsRegistry ==
  /\ [](lastList # <<>> => lastList = <<Keys(shells)>>)
  /\ [][ /\ Keys(shells') # Keys(shells) =>
              /\ ListOps(last'.ops) = <<TtyList(Keys(shells'))>>
              /\ lastList' = <<Keys(shells')>>
         /\ ( \/ last'.handler = "tty.remove"
              \/ (last'.handler = "tty.create" /\ last'.log = "warn") ) =>
              /\ ListOps(last'.ops) = <<>>
              /\ lastList' = lastList ]_vars

\* C5 witness: a process exit has just removed a session and the list of the
\* remaining one was published
C5_Witness ==
  /\ last.handler = "onExit"
  /\ Keys(shells) # {}
  /\ lastList = <<Keys(shells)>>

\* C6: removing a registered session A: the remove messages themselves publish
\* no list and leave the registry alone; the exit of A's process publishes
\* exactly one list, the registry's keys without A; and no list published while
\* A stays out of the registry names A
C6_RemovalPublishesOneList ==
  [][ \A a \in Ids :
        /\ (last'.handler = "tty.remove" /\ last'.id = a) =>
             /\ ListOps(last'.ops) = <<>>
             /\ lastList' = lastList
             /\ shells' = shells
        /\ (a \in Keys(shells) /\ a \notin Keys(shells')) =>
             /\ ListOps(last'.ops) = <<TtyList(Keys(shells) \ {a})>>
             /\ lastList' = <<Keys(shells) \ {a}>>
        /\ a \notin Keys(shells') =>
             /\ \A i \in 1..Len(ListOps(last'.ops)) :
                  a \notin ListOps(last'.ops)[i].payload.ids
             /\ lastList' # <<>> => a \notin lastList'[1] ]_vars

\* C6 witness: with A and B registered, A was removed by a remove message (its
\* process was killed and has exited) and the list {B} was published
C6_Witness ==
  /\ last.handler = "onExit"
  /\ last.id = "A"
  /\ <<"remove", "A">> \in handled
  /\ \E pid \in Pids : ptys[pid].id = "A" /\ ptys[pid].killed /\ ~ptys[pid].alive
  /\ last.ops[2] = TtyList({"B"})
  /\ lastList = <<{"B"}>>

\* a kill(9) of a process of session id is still to take effect
KillPending(id) == \E pid \in Pids : ptys[pid].id = id /\ ptys[pid].alive /\ ptys[pid].killed

\* C7 (as claimed): once a session's connection is closed and the target has
\* handled its create and its remove at least once each, in whatever order, the
\* session is cleaned up: unless a kill is still to take effect, the registry
\* does not hold the session and no live process is bound to it. (In a state
\* that violates this nothing obliges the target to clean up: the broker owes
\* no further delivery and the shell need not exit on its own.)
C7_CleanupAfterCreateAndRemove ==
  \A id \in Ids :
    ( /\ clients[id].ws = "closed"
      /\ <<"create", id>> \in handled
      /\ <<"remove", id>> \in handled
      /\ ~KillPending(id) ) =>
        /\ id \notin Keys(shells)
        /\ LiveOf(id) = {}

\* the remove messages connection c published for its session
RemovesOf(c) ==
  SelectSeq(clients[c].published,
            LAMBDA m : m.topic = TopicRemove(BaseOf(c))
                         /\ m.payload = Payload(clients[c].ttyId))

\* C8: for an accepted connection the close handler runs once, whatever closed
\* the socket: the timer is cleared, the `out` subscription and the listener are
\* gone and one remove for the session was published, none before the close;
\* from then on the connection's closure never changes again (no tick, nothing
\* sent to the client, nothing published)
C8_CloseHandlerRunsOnce ==
  /\ [](\A c \in Ids : Accepted(c) =>
          IF clients[c].ws = "closed"
          THEN /\ ~clients[c].heartbeat
               /\ ~clients[c].listener
               /\ TopicTtyOut(BaseOf(c), clients[c].ttyId) \notin masterSubs
               /\ Len(RemovesOf(c)) = 1
          ELSE Len(RemovesOf(c)) = 0)
  /\ [][ \A c \in Ids :
           clients[c].ws = "closed" => clients'[c] = clients[c] ]_vars

\* C8 witness: a connection closed by a heartbeat terminate, after one chunk
\* was forwarded to it and while another `out` packet of its session is
\* published
C8_Witness ==
  \E c \in Ids :
    /\ clients[c].ws = "closed"
    /\ clients[c].terminated
    /\ Len(clients[c].sent) = 1
    /\ Cardinality(OutPackets(c)) > 1

\* C9: counting a connection's ticks since its last pong (since its accept if
\* it never answered): after one tick a ping is out and the socket was not
\* terminated, after two it was terminated; and a closed connection has
\* published its remove once
C9_SecondSilentTickTerminates ==
  \A c \in Ids : Accepted(c) =>
    /\ clients[c].silent = 0 => ~clients[c].terminated
    /\ clients[c].silent = 1 =>
         /\ ~clients[c].terminated
         /\ clients[c].pinged
         /\ ~clients[c].isAlive
    /\ clients[c].silent >= 2 => clients[c].terminated
    /\ clients[c].ws = "closed" => Len(RemovesOf(c)) = 1

\* C9 witness: two ticks without a pong, the socket terminated and closed, one
\* remove published
C9_Witness ==
  \E c \in Ids :
    /\ clients[c].silent = 2
    /\ clients[c].terminated
    /\ clients[c].ws = "closed"
    /\ Len(RemovesOf(c)) = 1

\* a string of exactly the 8-4-4-4-12 hexadecimal layout
IsUuidShaped(v) ==
  /\ v.type = "string"
  /\ Len(Spell(v.chars)) = PatternLen
  /\ MatchAt(Spell(v.chars), 1)

\* C10 (as claimed): a connection whose target parameter is missing or not
\* UUID-shaped is closed at once and has no session: no session id, nothing
\* published, no subscription, no listener, no heartbeat timer
C10_InvalidTargetRefused ==
  \A c \in Ids :
    (clients[c].ws # "idle" /\ ~IsUuidShaped(clients[c].target)) =>
      /\ clients[c].ws = "refused"
      /\ clients[c].ttyId = NoId
      /\ clients[c].published = <<>>
      /\ ~clients[c].heartbeat
      /\ ~clients[c].listener
      /\ masterSubs = {}

\* C11 (as claimed): a control message whose payload is not JSON, not an
\* object, has no id or has an id that is not UUID-shaped is dropped and logged:
\* the registry, the processes, the subscriptions and the last list are as
\* before, nothing is published, and the target still runs
C11_MalformedControlDropped ==
  [][ \A text \in ControlTexts :
        (ForeignCreate(text) \/ ForeignRemove(text)) =>
          /\ shells' = shells
          /\ ptys' = ptys
          /\ targetSubs' = targetSubs
          /\ lastList' = lastList
          /\ last'.ops = <<>>
          /\ last'.log = "error"
          /\ Running("target")' ]_vars

\* C12 (as claimed): a data message whose payload is not JSON or has no
\* non-negative integer seq is dropped: the receiving closure (next-expected
\* seq, reorder buffer, sink) is as before and the process still runs
C12_MalformedPacketDropped ==
  [][ \A text \in DataTexts :
        /\ \A pid \in Pids :
             ForeignIn(pid, text) =>
               /\ ptys'[pid].seqIn = ptys[pid].seqIn
               /\ ptys'[pid].bufferIn = ptys[pid].bufferIn
               /\ ptys'[pid].stdin = ptys[pid].stdin
               /\ Running("target")'
        /\ \A c \in Ids :
             ForeignOut(c, text) =>
               /\ clients'[c].seqOut = clients[c].seqOut
               /\ clients'[c].bufferOut = clients[c].bufferOut
               /\ clients'[c].sent = clients[c].sent
               /\ Running("master")' ]_vars

\* everything the two programs hold for session b: the connection's closure on
\* the master, the closures of the ptys spawned for b, b's registry entry and
\* the subscriptions to b's topics
SessionState(b) ==
  << clients[b],
     [pid \in {q \in Pids : ptys[q].id = b} |-> ptys[pid]],
     b \in Keys(shells),
     IF b \in Keys(shells) THEN shells[b] ELSE 0,
     TopicTtyOut(BaseOf(b), clients[b].ttyId) \in masterSubs,
     TopicTtyIn(TargetBase, b) \in targetSubs >>

\* the step is an event of session a: its connection, tick, pong, error,
\* websocket message or close, its create or remove, its pty's exit or output,
\* or the delivery of a packet published on one of its topics
EventOf(a) ==
  \/ \E t \in TargetParams : WsConnection(a, t)
  \/ Tick(a)
  \/ WsPong(a)
  \/ WsError(a)
  \/ WsMessage(a)
  \/ WsClose(a)
  \/ TtyCreate(a)
  \/ TtyRemove(a)
  \/ \E pid \in Pids : ptys[pid].id = a /\ (OnExit(pid) \/ OnData(pid))
  \/ \E c \in Ids : \E m \in TargetPublished :
       m.topic = TopicTtyOut(BaseOf(a), clients[a].ttyId) /\ MasterOnMessage(c, m)
  \/ \E pid \in Pids : \E m \in MasterPublished :
       m.topic = TopicTtyIn(TargetBase, a) /\ ShellOnMessage(pid, m)

\* every value of the sink is the data of a packet published on the topic
FromTopic(sink, msgs) ==
  \A i \in 1..Len(sink) : \E m \in msgs : m.payload.data = sink[i]

\* C13: an event of session a leaves everything held for another session b as
\* it was (a step that changes what is held for b is no event of a), and what
\* a session's sink received was published on that session's own topic
C13_SessionsIndependent ==
  /\ [](/\ \A c \in Ids : FromTopic(clients[c].sent, OutPackets(c))
        /\ \A pid \in Pids : FromTopic(ptys[pid].stdin, InPackets(pid)))
  /\ [][ \A a \in Ids : \A b \in Ids \ {a} :
           SessionState(b)' # SessionState(b) => ~EventOf(a) ]_vars

\* C13 witness: session A has data under way in both directions (a packet
\* written to its pty, one sent to its client, one waiting in a reorder
\* buffer) while session B's connection was terminated by the heartbeat and
\* closed and B's shell was killed and has exited
C13_Witness ==
  /\ Len(clients["A"].sent) >= 1
  /\ \E pid \in Pids : ptys[pid].id = "A" /\ Len(ptys[pid].stdin) >= 1
  /\ \/ clients["A"].bufferOut # <<>>
     \/ \E pid \in Pids : ptys[pid].id = "A" /\ ptys[pid].bufferIn # <<>>
  /\ clients["B"].ws = "closed"
  /\ clients["B"].terminated
  /\ \E pid \in Pids : ptys[pid].id = "B" /\ ptys[pid].killed /\ ~ptys[pid].alive

\* every packet of the buffer has a seq above the next-expected one
AboveNext(buf, seq) == \A i \in 1..Len(buf) : buf[i].seq > seq

\* C14 (as claimed): after every receive step the reorder buffer holds only
\* packets whose seq is above the next-expected seq, a packet that arrives with
\* a seq below it having been discarded
C14_BufferAboveNextExpected ==
  /\ \A pid \in Pids : AboveNext(ptys[pid].bufferIn, ptys[pid].seqIn)
  /\ \A c \in Ids : AboveNext(clients[c].bufferOut, clients[c].seqOut)

\* the buffer holds a packet with seq s
Held(buf, s) == \E i \in 1..Len(buf) : buf[i].seq = s

\* for every seq k that has not arrived: next-expected has not passed k, the
\* sink has received fewer than k + 1 values, and every seq above k that has
\* arrived is held in the buffer
StalledAtGap(arrived, seq, buf, sink) ==
  \A k \in 0..MaxPkts :
    k \notin arrived =>
      /\ seq <= k
      /\ Len(sink) <= k
      /\ \A s \in arrived : s > k => Held(buf, s)

\* C15: while the packet with seq k has not arrived, nothing with seq >= k is
\* delivered: the sink holds the data of seqs below k only, every arrived seq
\* above k waits in the buffer, and a next-expected seq that has not arrived
\* stays what it is
C15_GapStallsDelivery ==
  /\ [](/\ \A pid \in Pids :
             /\ StalledAtGap(ptys[pid].arrived, ptys[pid].seqIn,
                             ptys[pid].bufferIn, ptys[pid].stdin)
             /\ InSeqOrder(ptys[pid].stdin, InPackets(pid))
        /\ \A c \in Ids :
             /\ StalledAtGap(clients[c].arrived, clients[c].seqOut,
                             clients[c].bufferOut, clients[c].sent)
             /\ InSeqOrder(clients[c].sent, OutPackets(c)))
  /\ [][ /\ \A pid \in Pids :
             ptys[pid].seqIn \notin ptys'[pid].arrived =>
               ptys'[pid].seqIn = ptys[pid].seqIn
         /\ \A c \in Ids :
             clients[c].seqOut \notin clients'[c].arrived =>
               clients'[c].seqOut = clients[c].seqOut ]_vars

\* C15 witness: seq 0 and seq 2 have arrived at a pty's handler and seq 1 has
\* not: the pty got one value and seq 2 is in the buffer
C15_Witness ==
  \E pid \in Pids :
    /\ ptys[pid].arrived = {0, 2}
    /\ Len(ptys[pid].stdin) = 1
    /\ ptys[pid].seqIn = 1
    /\ Held(ptys[pid].bufferIn, 2)

\* the calls of the exit observer of session id: unsubscribe, then the list
CleanupOps(id, keys) == <<Unsub(TopicTtyIn(TargetBase, id)), TtyList(keys)>>

\* C16: a remove for an absent id only logs a warning; a remove for a present
\* id only kills the bound process and leaves the registry, the subscriptions
\* and the list alone, so the session stays registered, and a create for it
\* refused, until the process exits; a registry entry disappears only in the
\* exit observer, which unsubscribes, removes the listener, deletes the entry
\* and publishes the list, once per process
C16_RemoveOnlyKills ==
  /\ [](\A pid \in Pids :
          /\ ptys[pid].alive => (ptys[pid].id \in Keys(shells) /\ shells[ptys[pid].id] = pid)
          /\ ~ptys[pid].alive => ~ptys[pid].listening)
  /\ [][ /\ last'.handler = "tty.remove" =>
              /\ shells' = shells
              /\ targetSubs' = targetSubs
              /\ lastList' = lastList
              /\ IF last'.id \in Keys(shells)
                 THEN /\ last'.ops = <<[op |-> "kill", pid |-> shells[last'.id]]>>
                      /\ ptys' = [ptys EXCEPT ![shells[last'.id]].killed = TRUE]
                 ELSE /\ last'.log = "warn"
                      /\ last'.ops = <<>>
                      /\ ptys' = ptys
         /\ \A id \in Keys(shells) \ Keys(shells') :
              /\ last' = Ran("onExit", id, "none", CleanupOps(id, Keys(shells')))
              /\ ptys[shells[id]].alive /\ ~ptys'[shells[id]].alive
              /\ ~ptys'[shells[id]].listening
              /\ TopicTtyIn(TargetBase, id) \notin targetSubs'
         /\ (last'.handler = "tty.create" /\ KillPending(last'.id)) =>
              (last'.log = "warn" /\ shells' = shells)
         /\ \A pid \in Pids : ~ptys[pid].alive => ptys'[pid] = ptys[pid] ]_vars

\* C16 witness: the process of a session was killed by a remove and has exited,
\* and its exit observer has just run
C16_Witness ==
  /\ last.handler = "onExit"
  /\ \E pid \in Pids :
       /\ ptys[pid].id = last.id
       /\ ptys[pid].killed
       /\ ~ptys[pid].alive
  /\ last.id \notin Keys(shells)
  /\ <<"remove", last.id>> \in handled

\* C17 (as claimed): on every connect event the target subscribes to the
\* create and remove topics first and then publishes the registry's keys on
\* the list topic
C17_SubscribeThenList ==
  [][ last'.handler = "connect" =>
        /\ last'.ops = << Sub(TopicCreate(TargetBase)), Sub(TopicRemove(TargetBase)),
                          TtyList(Keys(shells)) >>
        /\ lastList' = <<Keys(shells)>> ]_vars

\* the receive side of pty pid's closure
SequencerOf(pty) == <<pty.seqIn, pty.bufferIn, pty.stdin>>

\* C18: the target subscribes to a session's in topic and has a listener for
\* it exactly while the session is in the registry, the listener being the
\* registered shell's; so a data packet changes only the closure of the shell
\* registered under its session id, and one that arrives for a session not in
\* the registry changes no closure, no process input and not the registry
C18_RoutedToRegisteredOnly ==
  /\ [](/\ \A id \in Ids :
             id \in Keys(shells) <=> TopicTtyIn(TargetBase, id) \in targetSubs
        /\ \A pid \in Pids :
             ptys[pid].listening <=>
               (ptys[pid].id \in Keys(shells) /\ shells[ptys[pid].id] = pid))
  /\ [][ /\ \A pid \in Pids :
             SequencerOf(ptys'[pid]) # SequencerOf(ptys[pid]) =>
               /\ ptys[pid].id \in Keys(shells)
               /\ shells[ptys[pid].id] = pid
               /\ shells' = shells
         /\ \A m \in MasterPublished :
             DiscardIn(m) =>
               /\ m.topic[2] \notin Keys(shells)
               /\ ptys' = ptys
               /\ shells' = shells
               /\ targetSubs' = targetSubs ]_vars

\* C18 witness: a data packet has just been discarded for a session whose
\* process, which had received data, has exited and which is not registered
C18_Witness ==
  /\ last.handler = "message"
  /\ last.id \notin Keys(shells)
  /\ \E pid \in Pids :
       /\ ptys[pid].id = last.id
       /\ ~ptys[pid].alive
       /\ Len(ptys[pid].stdin) >= 1

\* C19: what the master publishes for a session is, in this order: one create
\* carrying the session id, then the session's in packets, then (once the
\* connection has closed) one remove; nothing after the remove, and nothing
\* for a connection that was not accepted
C19_CreateFirstRemoveLast ==
  \A c \in Ids :
    LET log == clients[c].published
        create == Pub(TopicCreate(BaseOf(c)), Payload(clients[c].ttyId))
        remove == Pub(TopicRemove(BaseOf(c)), Payload(clients[c].ttyId))
        topicTtyIn == TopicTtyIn(BaseOf(c), clients[c].ttyId)
    IN IF ~Accepted(c) THEN log = <<>>
       ELSE /\ Len(log) >= 1
            /\ log[1] = create
            /\ \A i \in 2..Len(log) :
                 \/ log[i].topic = topicTtyIn
                 \/ log[i] = remove /\ i = Len(log) /\ clients[c].ws = "closed"
            /\ clients[c].ws = "closed" => log[Len(log)] = remove

\* C19 witness: a closed connection that published its create, two in packets
\* and its remove
C19_Witness ==
  \E c \in Ids :
    /\ clients[c].ws = "closed"
    /\ Len(clients[c].published) = 4
    /\ clients[c].published[3].payload.seq = 1

\* C20: a tick terminates the connection exactly when no pong was received
\* since the previous tick (none since the accept, for the first tick: the
\* connection starts as acknowledged); otherwise it clears the flag and sends
\* a ping. The flag is set exactly when a pong came since the last tick, so a
\* connection is terminated only after two ticks in a row without a pong
C20_TickTerminatesIffSilent ==
  /\ [](\A c \in Ids : Accepted(c) =>
          /\ clients[c].isAlive <=> clients[c].silent = 0
          /\ clients[c].terminated => clients[c].silent >= 2)
  /\ [][ \A c \in Ids :
           /\ clients'[c].silent = clients[c].silent + 1 =>
                IF clients[c].silent >= 1
                THEN /\ clients'[c].terminated
                     /\ clients'[c].ws # "open"
                     /\ clients'[c].isAlive = clients[c].isAlive
                     /\ clients'[c].pinged = clients[c].pinged
                ELSE /\ ~clients'[c].terminated
                     /\ clients'[c].ws = clients[c].ws
                     /\ ~clients'[c].isAlive
                     /\ clients'[c].pinged
           /\ WsPong(c) => (clients'[c].isAlive /\ clients'[c].silent = 0) ]_vars

\* C20 witness: a tick has just terminated a connection that had been sent
\* data but had not answered the ping of the tick before
C20_Witness ==
  \E c \in Ids :
    /\ clients[c].ws = "closing"
    /\ clients[c].terminated
    /\ clients[c].silent = 2
    /\ Len(clients[c].sent) >= 1

====
